---- MODULE Spec2Model ----
(***************************************************************************)
(* Model of gdunit4-test-runner: project-root detection (internal/detector)*)
(* the Godot process runner with its log tail (internal/runner), the       *)
(* report aggregation (internal/report) and the entry point run().         *)
(*                                                                         *)
(* Paths are sequences of path segments; <<>> is the filesystem root.      *)
(* Inputs are already absolute, so filepath.Abs is the identity on them.   *)
(***************************************************************************)
EXTENDS Integers, Sequences, FiniteSets, TLC

VARIABLES
    \* ---- filesystem seen by the detector --------------------------------
    markers,      \* set of directories that contain an entry project.godot
    addon,        \* markers -> kind of <dir>/addons/gdUnit4: "none","dir","file"
    testPaths,    \* the input paths handed to Detect
    detected,     \* what Detect returned ("pending" before the call)
    \* ---- entry point run() and runner.Run --------------------------------
    pc,           \* position of the primary thread
    verbose,      \* cfg.Verbose
    timeout,      \* cfg.Timeout (0 = none)
    ctxDone,      \* the deadline of the context has passed
    watchErr,     \* exec's context watcher recorded ctx.Err() (its Kill returned nil)
    sinkExists,   \* the temporary log file is on disk
    sinkOpen,     \* Run's handle tmpFile is open
    sinkData,     \* content of the log file: the units the child wrote, in order
    stdinW,       \* write end of the stdin pipe: "none", "open", "closed"
    stdinR,       \* read end of the stdin pipe:  "none", "open", "closed"
    child,        \* "none", "running", "exited" (on its own), "killed" (by the deadline)
    reaped,       \* cmd.Run has collected the ended child
    closeErr,     \* tmpFile.Close() returned an error
    childCode,    \* exit status of the child once it has ended
    childStdin,   \* what the child was given as standard input when started
    args,         \* the argument vector Run built for the engine
    stopTail,     \* the stop channel: "nil", "open", "closed"
    stopCloses,   \* number of close(stopTail) executed
    tailPc,       \* position of the tail goroutine
    tailFile,     \* the tail's handle f: "none", "open", "failed", "closed"
    tailOff,      \* read offset of the tail goroutine in the log file
    live,         \* what the tail goroutine wrote to stderr, in order
    runErr,       \* Run's local runErr
    ret,          \* what Run returned
    crash,        \* what DetectCrash returned
    stdout,       \* documents written to the primary channel
    stderr,       \* messages run() wrote to the secondary channel
    exitStatus,   \* value returned by run() (-1 while running)
    \* ---- report aggregation ----------------------------------------------
    report,       \* the report artifact: [kind |-> "none"], "bad", or "ok" with suites
    output,       \* what BuildOutput returned ("unset" before the call)
    reports,      \* what the glob reports/report_*/results.xml matches, in its order
    found         \* what FindReportXML returned (Unset before the call)

detVars  == <<markers, addon, testPaths, detected>>
ctxVars   == <<ctxDone, watchErr>>
sinkVars  == <<sinkExists, sinkOpen, sinkData>>
pipeVars  == <<stdinW, stdinR>>
childVars == <<child, reaped, childCode, childStdin>>
tailVars  == <<stopTail, stopCloses, tailPc, tailFile, tailOff, live>>
errVars   == <<closeErr, runErr, ret>>
procVars  == <<ctxVars, sinkVars, pipeVars, childVars, tailVars, errVars, args>>
cfgVars   == <<verbose, timeout>>
mainVars  == <<pc, cfgVars, crash, stdout, stderr, exitStatus>>
findVars == <<reports, found>>
repVars  == <<report, output, findVars>>
vars == <<detVars, procVars, mainVars, repVars>>

\* ------------------------------------------------------------------------
\* Bounds
\* ------------------------------------------------------------------------
MaxDepth   == 2      \* depth of the directory tree
MaxMarkers == 2      \* at most this many directories hold project.godot
MaxPaths   == 2      \* at most this many input paths per Detect call
MaxLog     == 3      \* the child writes at most this many units to the log

DirNames == {"a", "b"}

\* ------------------------------------------------------------------------
\* The filesystem
\* ------------------------------------------------------------------------
SeqsUpTo(S, n) == UNION {[1..k -> S] : k \in 0..n}

\* the directory tree, all of it existing: a chain a, a/a, ... of depth
\* MaxDepth below the filesystem root and next to it a sibling b
Dirs == {p \in SeqsUpTo(DirNames, MaxDepth) :
            \A i \in 1..Len(p) : p[i] = "b" => Len(p) = 1}

MarkerName == "project.godot"
TestFile   == "t.gd"

\* os.Stat: the kind of the entry at path p
Stat(p) ==
    IF p \in Dirs THEN "dir"
    ELSE IF Len(p) = 0 THEN "none"
    ELSE LET d == SubSeq(p, 1, Len(p) - 1)
             n == p[Len(p)]
         IN IF d \in Dirs /\ n = TestFile THEN "file"
            ELSE IF d \in markers /\ n = MarkerName THEN "file"
            ELSE "none"

\* filepath.Dir: the parent; the filesystem root is its own parent
Dir(p) == IF Len(p) = 0 THEN p ELSE SubSeq(p, 1, Len(p) - 1)

\* filepath.Join(dir, name)
Join(d, n) == Append(d, n)

NoRoot == <<"<no project.godot>">>

\* mutant: the walk keeps climbing and answers with the farthest marker
RECURSIVE WalkUpFarthest(_)
WalkUpFarthest(dir) ==
    LET here == Stat(Join(dir, MarkerName)) # "none"
    IN IF Dir(dir) = dir THEN (IF here THEN dir ELSE NoRoot)
       ELSE LET up == WalkUpFarthest(Dir(dir))
            IN IF up # NoRoot THEN up ELSE IF here THEN dir ELSE NoRoot

\* mutant: a walk that reaches the filesystem root without a match answers
\* with the filesystem root
RECURSIVE WalkUpRootDefault(_)
WalkUpRootDefault(dir) ==
    IF Stat(Join(dir, MarkerName)) # "none" THEN dir
    ELSE IF Dir(dir) = dir THEN dir
    ELSE WalkUpRootDefault(Dir(dir))

\* the upward loop of findProjectRoot
RECURSIVE WalkUp(_)
WalkUp(dir) ==
    IF Stat(Join(dir, MarkerName)) # "none" THEN dir
    ELSE IF Dir(dir) = dir THEN NoRoot
    ELSE WalkUp(Dir(dir))

\* findProjectRoot: [err |-> "", root |-> dir] or an error
findProjectRoot(startPath) ==
    IF Stat(startPath) = "none" THEN [err |-> "cannot access path", root |-> NoRoot]
    ELSE LET dir == IF Stat(startPath) # "dir" THEN Dir(startPath) ELSE startPath
             r   == WalkUp(dir)
         IN IF r = NoRoot THEN [err |-> "project.godot not found", root |-> NoRoot]
            ELSE [err |-> "", root |-> r]

\* verifyGdUnit4: TRUE when <projectDir>/addons/gdUnit4 is a directory
verifyGdUnit4(projectDir) == addon[projectDir] = "dir"

\* filepath.Rel(base, target) as segments: drop the common prefix, climb out
\* of what is left of base with "..", then descend; "." when equal
RECURSIVE CommonLen(_, _)
CommonLen(x, y) ==
    IF Len(x) = 0 \/ Len(y) = 0 \/ x[1] # y[1] THEN 0
    ELSE 1 + CommonLen(Tail(x), Tail(y))

\* mutant: equal paths give the empty relative path
RelNoDot(base, target) ==
    LET c == CommonLen(base, target)
    IN [i \in 1..(Len(base) - c) |-> ".."] \o SubSeq(target, c + 1, Len(target))

Rel(base, target) ==
    LET c    == CommonLen(base, target)
        ups  == [i \in 1..(Len(base) - c) |-> ".."]
        down == SubSeq(target, c + 1, Len(target))
    IN IF ups \o down = <<>> THEN <<".">> ELSE ups \o down

\* filepath.ToSlash of a relative path: its segments joined with "/"
RECURSIVE ToSlash(_)
ToSlash(segs) ==
    IF Len(segs) = 0 THEN ""
    ELSE IF Len(segs) = 1 THEN segs[1]
    ELSE segs[1] \o "/" \o ToSlash(Tail(segs))

\* mutant: the arguments of filepath.Rel are swapped
toResPathSwapped(projectDir, testPath) == "res://" \o ToSlash(Rel(testPath, projectDir))

toResPath(projectDir, testPath) == "res://" \o ToSlash(Rel(projectDir, testPath))

\* mutant: the loop does not compare each path's root with projectDir
RECURSIVE DetectLoopNoRootCheck(_, _, _, _)
DetectLoopNoRootCheck(paths, i, projectDir, resPaths) ==
    IF i > Len(paths)
    THEN [ok |-> TRUE, err |-> "", path |-> <<>>, root |-> <<>>,
          ProjectDir |-> projectDir, ResPaths |-> resPaths]
    ELSE LET p == paths[i]
             r == findProjectRoot(p)
         IN IF r.err # ""
            THEN [ok |-> FALSE, err |-> r.err, path |-> p, root |-> <<>>,
                  ProjectDir |-> <<>>, ResPaths |-> <<>>]
            ELSE DetectLoopNoRootCheck(paths, i + 1, projectDir,
                                       Append(resPaths, toResPath(projectDir, p)))

\* the per-path loop of Detect, from index i with the reference paths so far
RECURSIVE DetectLoop(_, _, _, _)
DetectLoop(paths, i, projectDir, resPaths) ==
    IF i > Len(paths)
    THEN [ok |-> TRUE, err |-> "", path |-> <<>>, root |-> <<>>,
          ProjectDir |-> projectDir, ResPaths |-> resPaths]
    ELSE LET p == paths[i]
             r == findProjectRoot(p)
         IN IF r.err # ""
            THEN [ok |-> FALSE, err |-> r.err, path |-> p, root |-> <<>>,
                  ProjectDir |-> <<>>, ResPaths |-> <<>>]
            ELSE IF r.root # projectDir
            THEN [ok |-> FALSE, err |-> "different Godot project", path |-> p,
                  root |-> r.root, ProjectDir |-> <<>>, ResPaths |-> <<>>]
            ELSE DetectLoop(paths, i + 1, projectDir,
                            Append(resPaths, toResPath(projectDir, p)))

DetectFail(e, p) ==
    [ok |-> FALSE, err |-> e, path |-> p, root |-> <<>>,
     ProjectDir |-> <<>>, ResPaths |-> <<>>]

\* mutant: the add-on is looked for after the per-path loop
DetectVerifyLast(paths) ==
    IF Len(paths) = 0 THEN DetectFail("no test paths provided", <<>>)
    ELSE LET first == findProjectRoot(paths[1])
         IN IF first.err # "" THEN DetectFail(first.err, paths[1])
            ELSE LET r == DetectLoop(paths, 1, first.root, <<>>)
                 IN IF ~r.ok THEN r
                    ELSE IF ~verifyGdUnit4(first.root)
                    THEN DetectFail("addons/gdUnit4/ not found", first.root)
                    ELSE r

\* Detect(testPaths)
Detect(paths) ==
    IF Len(paths) = 0 THEN DetectFail("no test paths provided", <<>>)
    ELSE LET first == findProjectRoot(paths[1])
         IN IF first.err # "" THEN DetectFail(first.err, paths[1])
            ELSE IF ~verifyGdUnit4(first.root)
            THEN DetectFail("addons/gdUnit4/ not found", first.root)
            ELSE DetectLoop(paths, 1, first.root, <<>>)

\* ------------------------------------------------------------------------
\* internal/report
\* ------------------------------------------------------------------------
\* A log line is [n, crash, pre]: n its position in the log, crash whether it
\* contains "handle_crash:", pre the marker prefix it begins with ("" if none).
\* A message or body is a sequence of tokens.
Nil   == [nil |-> TRUE]      \* a nil pointer
Unset == [unset |-> TRUE]    \* a variable not assigned yet
ResTokens == {"res://t.gd"}
\* digit tokens; strconv.Atoi fails on the second (out of range), and the
\* line number then keeps its zero value
NumTokens == {"42", "99999999999999999999"}
Atoi(t) == IF t = "42" THEN 42 ELSE 0
QuotedTokens == {"'foo'", "'bar'"}
Unquote(t) == IF t = "'foo'" THEN "foo" ELSE IF t = "'bar'" THEN "bar" ELSE ""

\* failedLocRe.FindStringSubmatch: the leftmost "FAILED:" res-path ":" digits
failedLocRe(msg) ==
    LET hits == {i \in 1..(Len(msg) - 3) :
                    /\ msg[i] = "FAILED:" /\ msg[i + 1] \in ResTokens
                    /\ msg[i + 2] = ":" /\ msg[i + 3] \in NumTokens}
    IN IF hits = {} THEN <<>>
       ELSE LET i == CHOOSE h \in hits : \A g \in hits : h <= g
            IN <<msg[i + 1], msg[i + 3]>>

\* strings.TrimSpace on a token sequence: blank tokens at both ends dropped
RECURSIVE TrimLeft(_)
TrimLeft(b) == IF Len(b) > 0 /\ b[1] = " " THEN TrimLeft(Tail(b)) ELSE b
RECURSIVE TrimRight(_)
TrimRight(b) ==
    IF Len(b) > 0 /\ b[Len(b)] = " " THEN TrimRight(SubSeq(b, 1, Len(b) - 1)) ELSE b
TrimSpace(b) == TrimRight(TrimLeft(b))

\* expectedActualRe.FindStringSubmatch: "Expected" 'x' "but was" 'y'
expectedActualRe(body) ==
    LET hits == {i \in 1..(Len(body) - 3) :
                    /\ body[i] = "Expected" /\ body[i + 1] \in QuotedTokens
                    /\ body[i + 2] = "but was" /\ body[i + 3] \in QuotedTokens}
    IN IF hits = {} THEN <<>>
       ELSE LET i == CHOOSE h \in hits : \A g \in hits : h <= g
            IN <<Unquote(body[i + 1]), Unquote(body[i + 3])>>

\* the body of the loop of ExtractFailures for one test case with payload f
OneFailure(tc, f) ==
    LET loc == failedLocRe(f.Message)
        ea  == expectedActualRe(TrimSpace(f.Text))
    IN [Class    |-> tc.Classname,
        Method   |-> tc.Name,
        File     |-> IF loc = <<>> THEN "" ELSE loc[1],
        Line     |-> IF loc = <<>> THEN 0 ELSE Atoi(loc[2]),
        Expected |-> IF ea = <<>> THEN "" ELSE ea[1],
        Actual   |-> IF ea = <<>> THEN "" ELSE ea[2],
        Message  |-> f.Message]

\* mutant: the error element is looked at first
PayloadErrorFirst(tc) == IF tc.Error # Nil THEN tc.Error ELSE tc.Failure

\* the payload ExtractFailures uses for a test case
Payload(tc) == IF tc.Failure # Nil THEN tc.Failure ELSE tc.Error

\* ExtractFailures over the test cases of all suites, in order; the result is
\* [isNil, items]: isNil when nothing was appended (the nil slice)
NilSlice == [isNil |-> TRUE, items |-> <<>>]

\* mutant: a case whose message does not give a location is dropped
RECURSIVE ExtractFromDropsUnmatched(_, _)
ExtractFromDropsUnmatched(cases, acc) ==
    IF Len(cases) = 0 THEN acc
    ELSE LET tc == cases[1]
             f  == Payload(tc)
         IN IF f = Nil \/ failedLocRe(f.Message) = <<>>
            THEN ExtractFromDropsUnmatched(Tail(cases), acc)
            ELSE ExtractFromDropsUnmatched(Tail(cases),
                             [isNil |-> FALSE,
                              items |-> Append(acc.items, OneFailure(tc, f))])

RECURSIVE ExtractFrom(_, _)
ExtractFrom(cases, acc) ==
    IF Len(cases) = 0 THEN acc
    ELSE LET tc == cases[1]
             f  == Payload(tc)
         IN IF f = Nil THEN ExtractFrom(Tail(cases), acc)
            ELSE ExtractFrom(Tail(cases),
                             [isNil |-> FALSE,
                              items |-> Append(acc.items, OneFailure(tc, f))])

ExtractFailures(suites) == ExtractFrom(suites.Cases, NilSlice)

\* DetectCrash on the lines of the log: Nil or the crash details
SelectCrash(lines)  == SelectSeq(lines, LAMBDA l : l.crash)
\* mutant: the prefix is looked at for every line, crash lines included
SelectScriptAll(lines) == SelectSeq(lines, LAMBDA l : l.pre = "SCRIPT ERROR:")

SelectScript(lines) == SelectSeq(lines, LAMBDA l : ~l.crash /\ l.pre = "SCRIPT ERROR:")

\* mutant: the details are returned also when nothing was collected
DetectCrashAlwaysPresent(lines) ==
    [CrashInfo |-> SelectCrash(lines), ScriptErrors |-> SelectScript(lines)]

DetectCrash(lines) ==
    LET crashLines       == SelectCrash(lines)
        scriptErrorLines == SelectScript(lines)
    IN IF Len(crashLines) = 0 /\ Len(scriptErrorLines) = 0 THEN Nil
       ELSE [CrashInfo |-> crashLines, ScriptErrors |-> scriptErrorLines]

\* FindReportXML on the matches of the glob, in glob order; a match is
\* [mtime, statOk]: its modification time and whether os.Stat succeeds on
\* it. The result names the chosen match by its position (0: no path).
NoReport(e) == [err |-> e, path |-> 0]

\* the loop over matches[1:], from position i with the newest so far
RECURSIVE NewestFrom(_, _, _)
NewestFrom(matches, i, newest) ==
    IF i > Len(matches) THEN newest
    ELSE IF ~matches[i].statOk THEN NewestFrom(matches, i + 1, newest)
    ELSE IF matches[i].mtime > matches[newest].mtime
    THEN NewestFrom(matches, i + 1, i)
    ELSE NewestFrom(matches, i + 1, newest)

FindReportXML(matches) ==
    IF Len(matches) = 0 THEN NoReport("no report file found")
    ELSE IF ~matches[1].statOk THEN NoReport("stat")
    ELSE [err |-> "", path |-> NewestFrom(matches, 2, 1)]

\* mutant: failures are looked at before the crash
StatusFailedFirst(crashed, failed) ==
    IF failed > 0 THEN "failed" ELSE IF crashed THEN "crashed" ELSE "passed"

\* status := "passed"; if crashed ... else if failed > 0 ...
Status(crashed, failed) ==
    IF crashed THEN "crashed" ELSE IF failed > 0 THEN "failed" ELSE "passed"

\* an empty slice that is not nil: []Failure{}
EmptySlice == [isNil |-> FALSE, items |-> <<>>]

\* mutant: failures is whatever ExtractFailures returned, nil included, and
\* nil without a report
BuildOutputNilFailures(suites, cr) ==
    LET failures  == IF suites # Nil THEN ExtractFailures(suites) ELSE NilSlice
        crashed   == cr # Nil
        total     == IF suites # Nil THEN suites.Tests ELSE 0
        failed    == IF suites # Nil THEN suites.Failures + suites.Errors ELSE 0
        passed    == IF total - failed < 0 THEN 0 ELSE total - failed
    IN [Summary |-> [Total |-> total, Passed |-> passed, Failed |-> failed,
                     Crashed |-> crashed, Status |-> Status(crashed, failed)],
        CrashDetails |-> cr,
        Failures |-> failures]

\* BuildOutput(suites, crash); suites = Nil when there is no report; the
\* Failures of the result are [isNil, items]
BuildOutput(suites, cr) ==
    LET extracted == IF suites # Nil THEN ExtractFailures(suites) ELSE NilSlice
        failures  == IF ~extracted.isNil THEN extracted ELSE EmptySlice
        crashed   == cr # Nil
        total     == IF suites # Nil THEN suites.Tests ELSE 0
        failed    == IF suites # Nil THEN suites.Failures + suites.Errors ELSE 0
        passed    == IF total - failed < 0 THEN 0 ELSE total - failed
    IN [Summary |-> [Total |-> total, Passed |-> passed, Failed |-> failed,
                     Crashed |-> crashed, Status |-> Status(crashed, failed)],
        CrashDetails |-> cr,
        Failures |-> failures]

\* ------------------------------------------------------------------------
\* Detector specification: a filesystem, then one Detect call
\* ------------------------------------------------------------------------
InputPaths == Dirs \cup {Join(d, TestFile) : d \in Dirs} \cup {<<"missing">>}

Pending == [ok |-> FALSE, err |-> "pending", path |-> <<>>, root |-> <<>>,
            ProjectDir |-> <<>>, ResPaths |-> <<>>]

NoRet == [kind |-> "none", ExitCode |-> 0, LogFile |-> FALSE, err |-> ""]

\* the runner before anything has happened, but for the log file
RunnerIdle ==
    /\ ctxDone = FALSE /\ watchErr = FALSE
    /\ sinkOpen = FALSE
    /\ stdinW = "none" /\ stdinR = "none"
    /\ child = "none" /\ childCode = 0 /\ childStdin = "none"
    /\ reaped = FALSE /\ closeErr = FALSE /\ tailFile = "none"
    /\ stopTail = "nil" /\ stopCloses = 0
    /\ tailPc = "none" /\ tailOff = 0 /\ live = <<>>
    /\ runErr = "nil" /\ ret = NoRet
    /\ args = <<>>

\* the runner and the entry point before anything has happened
ProcIdle == RunnerIdle /\ sinkExists = FALSE /\ sinkData = <<>>

MainIdle ==
    /\ verbose = FALSE /\ timeout = 0
    /\ crash = Unset /\ stdout = <<>> /\ stderr = <<>> /\ exitStatus = -1

FindIdle == reports = <<>> /\ found = Unset

RepIdle == report = [kind |-> "none"] /\ output = Unset /\ FindIdle

InitDetect ==
    /\ markers \in {m \in SUBSET Dirs : Cardinality(m) <= MaxMarkers}
    \* Detect consults the add-on of one project only (the first root), so
    \* the projects of a tree all carry the same kind
    /\ \E k \in {"none", "dir", "file"} : addon = [m \in markers |-> k]
    /\ testPaths = <<>>
    /\ detected = Pending
    /\ pc = "detector"
    /\ ProcIdle /\ MainIdle /\ RepIdle

DetectCall ==
    /\ pc = "detector"
    /\ detected = Pending
    /\ \E paths \in SeqsUpTo(InputPaths, MaxPaths) :
         /\ testPaths' = paths
         /\ detected' = Detect(paths)
    /\ UNCHANGED <<markers, addon, procVars, mainVars, repVars>>

NextDetect == DetectCall

SpecDetect == InitDetect /\ [][NextDetect]_vars

\* ------------------------------------------------------------------------
\* Report specification: one BuildOutput call on a report and crash details
\* ------------------------------------------------------------------------
MaxCount == 2      \* header counts range over 0..MaxCount
MaxCases == 2      \* at most this many test cases in a report

LocMessage == <<"FAILED:", "res://t.gd", ":", "42">>
EaBody     == <<" ", "Expected", "'foo'", "but was", "'bar'", " ">>
Payloads   == {[Message |-> LocMessage, Text |-> EaBody],
               [Message |-> <<"boom">>, Text |-> <<"Expected", "nothing">>]}
TestCases  == [Name : {"test_x"}, Classname : {"Foo"},
               Failure : Payloads \cup {Nil}, Error : Payloads \cup {Nil}]
SuitesSet  == [Tests : 0..MaxCount, Failures : 0..MaxCount, Errors : 0..MaxCount,
               Cases : SeqsUpTo(TestCases, MaxCases)]

CrashLine  == [n |-> 1, crash |-> TRUE, pre |-> ""]
CrashInputs == {Nil,
                [CrashInfo |-> <<CrashLine>>, ScriptErrors |-> <<>>],
                [CrashInfo |-> <<>>, ScriptErrors |-> <<>>]}

\* the suites argument of BuildOutput for a report state
SuitesOf(r) == IF r.kind = "ok" THEN r.suites ELSE Nil

InitReport ==
    /\ pc = "report"
    /\ report \in {[kind |-> "none"]} \cup {[kind |-> "ok", suites |-> x] : x \in SuitesSet}
    /\ crash \in CrashInputs
    /\ output = Unset
    /\ FindIdle
    /\ markers = {} /\ addon = <<>> /\ testPaths = <<>> /\ detected = Pending
    /\ ProcIdle
    /\ verbose = FALSE /\ timeout = 0
    /\ stdout = <<>> /\ stderr = <<>> /\ exitStatus = -1

BuildCall ==
    /\ pc = "report"
    /\ output = Unset
    /\ output' = BuildOutput(SuitesOf(report), crash)
    /\ UNCHANGED <<detVars, procVars, mainVars, report, findVars>>

NextReport == BuildCall

SpecReport == InitReport /\ [][NextReport]_vars


\* ------------------------------------------------------------------------
\* internal/runner and the entry point
\* ------------------------------------------------------------------------
BufSize     == 2                 \* the tail's read buffer, in log units
ExitCodes   == {0, 1, 100, 101}  \* statuses the engine exits with
KilledCodes == {-1, 1}           \* ExitCode() of a killed child (signal; TerminateProcess)
Timeouts    == {0, 1}            \* cfg.Timeout: none, or some positive duration

\* what the child may write: a plain line, a crash line, a script error line
ChildLines == {[crash |-> FALSE, pre |-> ""], [crash |-> TRUE, pre |-> ""],
               [crash |-> FALSE, pre |-> "SCRIPT ERROR:"]}

Min(x, y) == IF x < y THEN x ELSE y

\* the error cmd.Run returns once the child has ended with status code:
\* an *exec.ExitError for a non-success status; for a success status the
\* error recorded by the context watcher, if any
CmdRunErr(code, werr) ==
    IF code # 0 THEN "ExitError"
    ELSE IF werr THEN "DeadlineExceeded"
    ELSE "nil"

\* runErr after tmpFile.Close()
AfterClose(rerr, cerr) == IF cerr /\ rerr = "nil" THEN "close" ELSE rerr

\* mutant: one "-a" flag followed by all the paths
BuildArgsSingleFlag(resPaths) ==
    <<"--headless", "-s", "-d", "res://addons/gdUnit4/bin/GdUnitCmdTool.gd">>
    \o (IF Len(resPaths) = 0 THEN <<>> ELSE <<"-a">> \o resPaths)
    \o <<"--ignoreHeadlessMode", "-c">>

\* the loop of BuildArgs: args = append(args, "-a", p) for each path
RECURSIVE AppendPaths(_, _)
AppendPaths(acc, resPaths) ==
    IF Len(resPaths) = 0 THEN acc
    ELSE AppendPaths(acc \o <<"-a", resPaths[1]>>, Tail(resPaths))

BuildArgs(resPaths) ==
    AppendPaths(<<"--headless", "-s", "-d",
                  "res://addons/gdUnit4/bin/GdUnitCmdTool.gd">>, resPaths)
    \o <<"--ignoreHeadlessMode", "-c">>

RunResult(code) == [kind |-> "result", ExitCode |-> code, LogFile |-> TRUE, err |-> ""]
RunError(e) == [kind |-> "error", ExitCode |-> 0, LogFile |-> FALSE, err |-> e]

\* mutant: every non-zero exit status is reported as 1
RunOutcomeRemapped(rerr, code, tmo) ==
    IF rerr = "nil" THEN [ret |-> RunResult(0), remove |-> FALSE]
    ELSE IF rerr = "ExitError" THEN [ret |-> RunResult(1), remove |-> FALSE]
    ELSE IF tmo > 0 /\ rerr = "DeadlineExceeded"
    THEN [ret |-> RunError("Godot process timed out"), remove |-> TRUE]
    ELSE [ret |-> RunError("failed to run Godot"), remove |-> TRUE]

\* mutant: any other error is taken for an exit with status 0
RunOutcomeNoErrorBranch(rerr, code, tmo) ==
    IF rerr = "ExitError" THEN [ret |-> RunResult(code), remove |-> FALSE]
    ELSE IF tmo > 0 /\ rerr = "DeadlineExceeded"
    THEN [ret |-> RunError("Godot process timed out"), remove |-> TRUE]
    ELSE [ret |-> RunResult(0), remove |-> FALSE]

\* mutant: the error branches forget os.Remove(tmpPath)
RunOutcomeKeepsSink(rerr, code, tmo) ==
    IF rerr = "nil" THEN [ret |-> RunResult(0), remove |-> FALSE]
    ELSE IF rerr = "ExitError" THEN [ret |-> RunResult(code), remove |-> FALSE]
    ELSE IF tmo > 0 /\ rerr = "DeadlineExceeded"
    THEN [ret |-> RunError("Godot process timed out"), remove |-> FALSE]
    ELSE [ret |-> RunError("failed to run Godot"), remove |-> FALSE]

\* the mapping of runErr at the end of Run: what is returned, and whether
\* the log file is removed
RunOutcome(rerr, code, tmo) ==
    IF rerr = "nil"
    THEN [ret |-> RunResult(0), remove |-> FALSE]
    ELSE IF rerr = "ExitError"
    THEN [ret |-> RunResult(code), remove |-> FALSE]
    ELSE IF tmo > 0 /\ rerr = "DeadlineExceeded"
    THEN [ret |-> RunError("Godot process timed out"), remove |-> TRUE]
    ELSE [ret |-> RunError("failed to run Godot"), remove |-> TRUE]

\* mutant: run() returns without removing the log file
DeferredRemoveSkipped == TRUE

\* whether the log file is still there after run()'s deferred os.Remove
DeferredRemove == FALSE

\* run() returns code after writing msgs to stderr
Exit(code, msgs) ==
    /\ exitStatus' = code
    /\ stderr' = stderr \o msgs
    /\ pc' = "exited"

\* ---- run(): config.Parse and detector.Detect ---------------------------
MainParse ==
    /\ pc = "parse"
    /\ \/ /\ Exit(0, <<"usage">>)                            \* flag.ErrHelp
          /\ UNCHANGED <<cfgVars, testPaths>>
       \/ /\ Exit(0, <<"version">>)                          \* config.ErrVersion
          /\ UNCHANGED <<cfgVars, testPaths>>
       \/ /\ Exit(2, <<"usage", "error">>)                   \* a flag that does not parse
          /\ UNCHANGED <<cfgVars, testPaths>>
       \/ /\ Exit(2, <<"error">>)                            \* no engine binary
          /\ UNCHANGED <<cfgVars, testPaths>>
       \/ /\ verbose' \in BOOLEAN
          /\ timeout' \in Timeouts
          /\ testPaths' = << <<"a", TestFile>> >>
          /\ pc' = "detect"
          /\ UNCHANGED <<stderr, exitStatus>>
    /\ UNCHANGED <<markers, addon, detected, procVars, crash, stdout, repVars>>

MainDetect ==
    /\ pc = "detect"
    /\ detected' = Detect(testPaths)
    /\ IF detected'.ok
       THEN pc' = "createTemp" /\ UNCHANGED <<stderr, exitStatus>>
       ELSE Exit(2, <<"error">>)
    /\ UNCHANGED <<markers, addon, testPaths, procVars, cfgVars, crash, stdout,
                   repVars>>

\* ---- runner.Run ----------------------------------------------------------
\* what no step of Run touches
mainRest == <<detVars, cfgVars, crash, stdout, stderr, exitStatus, repVars>>
runRest  == <<mainRest, args>>

\* args := BuildArgs(resPaths); os.CreateTemp
RunCreateTemp ==
    /\ pc = "createTemp"
    /\ args' = BuildArgs(detected.ResPaths)
    /\ \/ /\ ret' = RunError("failed to create temp log file")
          /\ pc' = "afterRun"
          /\ UNCHANGED <<sinkExists, sinkOpen>>
       \/ /\ sinkExists' = TRUE /\ sinkOpen' = TRUE
          /\ pc' = "pipe"
          /\ UNCHANGED ret
    /\ UNCHANGED <<mainRest, ctxVars, sinkData, pipeVars, childVars, tailVars,
                   closeErr, runErr>>

\* mutant: the write end of the pipe is left open
RunPipeKeepsWriteEnd ==
    /\ pc = "pipe"
    /\ \/ /\ sinkOpen' = FALSE /\ sinkExists' = FALSE
          /\ ret' = RunError("failed to create stdin pipe")
          /\ pc' = "afterRun"
          /\ UNCHANGED pipeVars
       \/ /\ stdinW' = "open" /\ stdinR' = "open"
          /\ pc' = "startTail"
          /\ UNCHANGED <<sinkOpen, sinkExists, ret>>
    /\ UNCHANGED <<runRest, ctxVars, sinkData, childVars, tailVars, closeErr,
                   runErr>>

\* os.Pipe, pw.Close(), cmd.Stdin = pr
RunPipe ==
    /\ pc = "pipe"
    /\ \/ /\ sinkOpen' = FALSE /\ sinkExists' = FALSE
          /\ ret' = RunError("failed to create stdin pipe")
          /\ pc' = "afterRun"
          /\ UNCHANGED pipeVars
       \/ /\ stdinW' = "closed" /\ stdinR' = "open"
          /\ pc' = "startTail"
          /\ UNCHANGED <<sinkOpen, sinkExists, ret>>
    /\ UNCHANGED <<runRest, ctxVars, sinkData, childVars, tailVars, closeErr,
                   runErr>>

\* if verbose { stopTail = make(chan); go tailToStderr(...) }
RunStartTail ==
    /\ pc = "startTail"
    /\ IF verbose
       THEN stopTail' = "open" /\ tailPc' = "open"
       ELSE UNCHANGED <<stopTail, tailPc>>
    /\ pc' = "cmdStart"
    /\ UNCHANGED <<runRest, ctxVars, sinkVars, pipeVars, childVars, stopCloses,
                   tailFile, tailOff, live, errVars>>

\* cmd.Run, first half: the child is started, or cannot be
CmdStart ==
    /\ pc = "cmdStart"
    /\ \/ /\ runErr' = "spawn"                      \* binary missing, not executable
          /\ pc' = "close"
          /\ UNCHANGED <<child, childStdin>>
       \/ /\ ctxDone                                \* deadline passed before the start
          /\ runErr' = "DeadlineExceeded"
          /\ pc' = "close"
          /\ UNCHANGED <<child, childStdin>>
       \/ /\ ~ctxDone
          /\ child' = "running"
          /\ childStdin' = IF stdinW = "closed" THEN "eof" ELSE "open"
          /\ pc' = "cmdWait"
          /\ UNCHANGED runErr
    /\ UNCHANGED <<runRest, ctxVars, sinkVars, pipeVars, reaped, childCode,
                   tailVars, closeErr, ret>>

\* cmd.Run, second half: the ended child is reaped
CmdWait ==
    /\ pc = "cmdWait"
    /\ child \in {"exited", "killed"}
    /\ runErr' = CmdRunErr(childCode, watchErr)
    /\ reaped' = TRUE
    /\ pc' = "close"
    /\ UNCHANGED <<runRest, ctxVars, sinkVars, pipeVars, child, childCode,
                   childStdin, tailVars, closeErr, ret>>

\* cancelCtx(); tmpFile.Close()
RunClose ==
    /\ pc = "close"
    /\ closeErr' \in BOOLEAN
    /\ runErr' = AfterClose(runErr, closeErr')
    /\ sinkOpen' = FALSE
    /\ pc' = "stop"
    /\ UNCHANGED <<runRest, ctxVars, sinkExists, sinkData, pipeVars, childVars,
                   tailVars, ret>>

\* if verbose { close(stopTail) ...
RunStopTail ==
    /\ pc = "stop"
    /\ IF verbose
       THEN /\ stopTail' = "closed"
            /\ stopCloses' = stopCloses + 1
            /\ pc' = "wgWait"
       ELSE /\ pc' = "return"
            /\ UNCHANGED <<stopTail, stopCloses>>
    /\ UNCHANGED <<runRest, ctxVars, sinkVars, pipeVars, childVars, tailPc,
                   tailFile, tailOff, live, errVars>>

\* mutant: Run does not wait for the goroutine
RunWaitTailNoWait ==
    /\ pc = "wgWait"
    /\ pc' = "return"
    /\ UNCHANGED <<runRest, procVars>>

\* ... wg.Wait() }
RunWaitTail ==
    /\ pc = "wgWait"
    /\ tailPc = "done"
    /\ pc' = "return"
    /\ UNCHANGED <<runRest, procVars>>

\* the mapping of runErr, the return, and the deferred pr.Close()
RunReturn ==
    /\ pc = "return"
    /\ LET o == RunOutcome(runErr, childCode, timeout)
       IN /\ ret' = o.ret
          /\ sinkExists' = (sinkExists /\ ~o.remove)
    /\ stdinR' = "closed"
    /\ pc' = "afterRun"
    /\ UNCHANGED <<runRest, ctxVars, sinkOpen, sinkData, stdinW, childVars,
                   tailVars, closeErr, runErr>>

\* ---- the child process and the deadline --------------------------------
\* the child appends a unit to the log through its stdout/stderr
ChildWrite ==
    /\ child = "running"
    /\ Len(sinkData) < MaxLog
    /\ \E l \in ChildLines :
         sinkData' = Append(sinkData, [n |-> Len(sinkData) + 1,
                                       crash |-> l.crash, pre |-> l.pre])
    /\ UNCHANGED <<runRest, pc, ctxVars, sinkExists, sinkOpen, pipeVars,
                   childVars, tailVars, errVars>>

\* the child exits on its own
ChildExit ==
    /\ child = "running"
    /\ child' = "exited"
    /\ childCode' \in ExitCodes
    /\ UNCHANGED <<runRest, pc, ctxVars, sinkVars, pipeVars, reaped, childStdin,
                   tailVars, errVars>>

\* mutant: the deadline also closes the stop channel of the tail
DeadlinePassStopsTail ==
    /\ timeout > 0
    /\ ~ctxDone
    /\ pc \in {"createTemp", "pipe", "startTail", "cmdStart", "cmdWait"}
    /\ ctxDone' = TRUE
    /\ stopTail' = IF stopTail = "open" THEN "closed" ELSE stopTail
    /\ \/ /\ child = "running"
          /\ child' = "killed"
          /\ childCode' \in KilledCodes
          /\ watchErr' = TRUE
       \/ /\ child = "exited" /\ ~reaped
          /\ watchErr' \in BOOLEAN
          /\ UNCHANGED <<child, childCode>>
       \/ /\ child = "none"
          /\ UNCHANGED <<child, childCode, watchErr>>
    /\ UNCHANGED <<runRest, pc, sinkVars, pipeVars, reaped, childStdin,
                   stopCloses, tailPc, tailFile, tailOff, live, errVars>>

\* the deadline of context.WithTimeout passes before cancelCtx(): exec's
\* watcher kills a running child; for a child that has ended but is not yet
\* reaped its Kill may return nil (error recorded) or ErrProcessDone
DeadlinePass ==
    /\ timeout > 0
    /\ ~ctxDone
    /\ pc \in {"createTemp", "pipe", "startTail", "cmdStart", "cmdWait"}
    /\ ctxDone' = TRUE
    /\ \/ /\ child = "running"
          /\ child' = "killed"
          /\ childCode' \in KilledCodes
          /\ watchErr' = TRUE
       \/ /\ child = "exited" /\ ~reaped
          /\ watchErr' \in BOOLEAN
          /\ UNCHANGED <<child, childCode>>
       \/ /\ child = "none"
          /\ UNCHANGED <<child, childCode, watchErr>>
    /\ UNCHANGED <<runRest, pc, sinkVars, pipeVars, reaped, childStdin,
                   tailVars, errVars>>

\* ---- tailToStderr --------------------------------------------------------
\* mutant: every Read starts at the beginning of the file
ReadChunkFromStart(off, n) == SubSeq(sinkData, 1, n)

\* the n units a Read at offset off returns
ReadChunk(off, n) == SubSeq(sinkData, off + 1, off + n)
Avail(off) == Min(BufSize, Len(sinkData) - off)

tailRest == <<runRest, pc, ctxVars, sinkVars, pipeVars, childVars, stopTail,
              stopCloses, errVars>>

\* os.Open(path): on failure the goroutine returns at once
TailOpen ==
    /\ tailPc = "open"
    /\ \/ tailPc' = "done" /\ tailFile' = "failed"
       \/ sinkExists /\ tailPc' = "read" /\ tailFile' = "open"
    /\ UNCHANGED <<tailRest, tailOff, live>>

\* f.Read(buf); os.Stderr.Write(buf[:n]); at end of file go and look at stop
TailRead ==
    /\ tailPc = "read"
    /\ LET n == Avail(tailOff)
       IN IF n > 0
          THEN /\ live' = live \o ReadChunk(tailOff, n)
               /\ tailOff' = tailOff + n
               /\ UNCHANGED tailPc
          ELSE /\ tailPc' = "select"
               /\ UNCHANGED <<live, tailOff>>
    /\ UNCHANGED <<tailRest, tailFile>>

\* mutant: the goroutine returns on stop without the final drain
AfterEOFNoDrain(stop) == IF stop = "closed" THEN "done" ELSE "read"

\* where the goroutine goes at end of file: the drain once stop is closed,
\* else a sleep and another read
AfterEOF(stop) == IF stop = "closed" THEN "drain" ELSE "read"

\* select { case <-stop: drain; default: time.Sleep }
TailSelect ==
    /\ tailPc = "select"
    /\ tailPc' = AfterEOF(stopTail)
    /\ UNCHANGED <<tailRest, tailFile, tailOff, live>>

\* io.Copy(os.Stderr, f): read and forward until end of file, then return
\* (the deferred f.Close() and wg.Done())
TailDrain ==
    /\ tailPc = "drain"
    /\ LET n == Avail(tailOff)
       IN IF n > 0
          THEN /\ live' = live \o ReadChunk(tailOff, n)
               /\ tailOff' = tailOff + n
               /\ UNCHANGED <<tailPc, tailFile>>
          ELSE /\ tailPc' = "done" /\ tailFile' = "closed"
               /\ UNCHANGED <<live, tailOff>>
    /\ UNCHANGED tailRest

\* ---- run(): after runner.Run ---------------------------------------------
MaxPipeCount == 1      \* header counts of the reports the pipeline meets

PipeSuites == [Tests : 0..MaxPipeCount, Failures : 0..MaxPipeCount,
               Errors : {0}, Cases : {<<>>}]
PipeReports == {[kind |-> "none"], [kind |-> "bad"]}
               \cup {[kind |-> "ok", suites |-> x] : x \in PipeSuites}

\* mutant: the document is encoded twice
WriteJSONTwice(w, out) == w \o <<out, out>>

\* report.WriteJSON(w, out) when it succeeds: one document on w
WriteJSON(w, out) == Append(w, out)

\* mutant: the warning is written whenever there is no report
NoReportWarningAlways(cr) == <<"warning">>

\* if crash != nil { return 2 }; otherwise the warning, then return 2
NoReportWarning(cr) == IF cr # Nil THEN <<>> ELSE <<"warning">>

\* what the glob finds after the run: nothing, or the report of this run
PipeMatches == {<<>>, <<[mtime |-> 1, statOk |-> TRUE]>>}

\* exit code from out.Summary.Status
StatusExit(st) == IF st = "crashed" THEN 2 ELSE IF st = "failed" THEN 1 ELSE 0

\* what no step of run() after Run touches
afterRest == <<detVars, cfgVars, ctxVars, sinkOpen, sinkData, pipeVars,
               childVars, tailVars, errVars, args>>

\* if err != nil { ...; return 2 }; defer os.Remove(result.LogFile)
MainAfterRun ==
    /\ pc = "afterRun"
    /\ IF ret.kind = "error"
       THEN Exit(2, <<"error">>)
       ELSE pc' = "detectCrash" /\ UNCHANGED <<stderr, exitStatus>>
    /\ UNCHANGED <<afterRest, sinkExists, crash, stdout, repVars>>

\* report.DetectCrash(result.LogFile)
MainDetectCrash ==
    /\ pc = "detectCrash"
    /\ \/ /\ Exit(2, <<"error">>)                  \* log unreadable
          /\ sinkExists' = DeferredRemove
          /\ UNCHANGED crash
       \/ /\ sinkExists
          /\ crash' = DetectCrash(sinkData)
          /\ pc' = "findReport"
          /\ UNCHANGED <<sinkExists, stderr, exitStatus>>
    /\ UNCHANGED <<afterRest, stdout, repVars>>

\* report.FindReportXML; without a report the crash-only output is written
MainFindReport ==
    /\ pc = "findReport"
    /\ reports' \in PipeMatches
    /\ found' = FindReportXML(reports')
    /\ report' \in IF found'.err # "" THEN {[kind |-> "none"]}
                   ELSE PipeReports \ {[kind |-> "none"]}
    /\ IF report'.kind = "none"
       THEN /\ output' = BuildOutput(Nil, crash)
            /\ \E writeErr \in BOOLEAN :
                 /\ stdout' = IF writeErr THEN stdout ELSE WriteJSON(stdout, output')
                 /\ Exit(2, (IF writeErr THEN <<"error">> ELSE <<>>)
                            \o NoReportWarning(crash))
            /\ sinkExists' = DeferredRemove
       ELSE /\ pc' = "parseXML"
            /\ UNCHANGED <<output, stdout, stderr, exitStatus, sinkExists>>
    /\ UNCHANGED <<afterRest, crash>>

\* report.ParseXML
MainParseXML ==
    /\ pc = "parseXML"
    /\ IF report.kind = "bad"
       THEN /\ Exit(2, <<"error">>)
            /\ sinkExists' = DeferredRemove
       ELSE /\ pc' = "write"
            /\ UNCHANGED <<stderr, exitStatus, sinkExists>>
    /\ UNCHANGED <<afterRest, crash, stdout, repVars>>

\* mutant: a non-zero exit code of the engine makes the tool exit 2
MainWriteEngineCode ==
    /\ pc = "write"
    /\ output' = BuildOutput(SuitesOf(report), crash)
    /\ \E writeErr \in BOOLEAN :
         IF writeErr
         THEN Exit(2, <<"error">>) /\ UNCHANGED stdout
         ELSE /\ stdout' = WriteJSON(stdout, output')
              /\ Exit(IF ret.ExitCode # 0 THEN 2
                      ELSE StatusExit(output'.Summary.Status), <<>>)
    /\ sinkExists' = DeferredRemove
    /\ UNCHANGED <<afterRest, crash, report, findVars>>

\* report.BuildOutput, report.WriteJSON and the exit code from the status
MainWrite ==
    /\ pc = "write"
    /\ output' = BuildOutput(SuitesOf(report), crash)
    /\ \E writeErr \in BOOLEAN :
         IF writeErr
         THEN Exit(2, <<"error">>) /\ UNCHANGED stdout
         ELSE /\ stdout' = WriteJSON(stdout, output')
              /\ Exit(StatusExit(output'.Summary.Status), <<>>)
    /\ sinkExists' = DeferredRemove
    /\ UNCHANGED <<afterRest, crash, report, findVars>>

\* ------------------------------------------------------------------------
\* Runner specification: one invocation of the tool
\* ------------------------------------------------------------------------
InitRun ==
    /\ pc = "parse"
    /\ markers \in {{}, {<<"a">>}}
    /\ addon = [m \in markers |-> "dir"]
    /\ testPaths = <<>>
    /\ detected = Pending
    /\ ProcIdle /\ MainIdle /\ RepIdle

NextRun ==
    \/ MainParse \/ MainDetect
    \/ RunCreateTemp \/ RunPipe \/ RunStartTail \/ CmdStart \/ CmdWait
    \/ RunClose \/ RunStopTail \/ RunWaitTail \/ RunReturn
    \/ ChildWrite \/ ChildExit \/ DeadlinePass
    \/ TailOpen \/ TailRead \/ TailSelect \/ TailDrain
    \/ MainAfterRun \/ MainDetectCrash \/ MainFindReport \/ MainParseXML
    \/ MainWrite

SpecRun == InitRun /\ [][NextRun]_vars

\* ------------------------------------------------------------------------
\* Extraction specification: BuildOutput on a report whose test cases carry
\* all kinds of payload
\* ------------------------------------------------------------------------
Messages == {LocMessage,
             <<"boom">>,
             <<"x", "FAILED:", "res://t.gd", ":", "42", "y">>,
             <<"FAILED:", "res://t.gd", ":", "99999999999999999999">>}
Bodies   == {EaBody, <<"Expected", "nothing">>, <<>>}
FailurePayloads == [Message : Messages, Text : Bodies]
ErrorPayloads   == {[Message |-> <<"err">>, Text |-> <<>>],
                    [Message |-> LocMessage, Text |-> EaBody]}
ExtractCases == [Name : {"test_x"}, Classname : {"Foo"},
                 Failure : FailurePayloads \cup {Nil},
                 Error : ErrorPayloads \cup {Nil}]

InitExtract ==
    /\ pc = "report"
    /\ \E cs \in SeqsUpTo(ExtractCases, MaxCases) :
         report = [kind |-> "ok",
                   suites |-> [Tests |-> Len(cs), Failures |-> 0, Errors |-> 0,
                               Cases |-> cs]]
    /\ crash = Nil
    /\ output = Unset
    /\ FindIdle
    /\ markers = {} /\ addon = <<>> /\ testPaths = <<>> /\ detected = Pending
    /\ ProcIdle
    /\ verbose = FALSE /\ timeout = 0
    /\ stdout = <<>> /\ stderr = <<>> /\ exitStatus = -1

SpecExtract == InitExtract /\ [][NextReport]_vars

\* ------------------------------------------------------------------------
\* Report location specification: one FindReportXML call on a reports
\* directory
\* ------------------------------------------------------------------------
MaxReports == 3      \* at most this many matches of the glob
MaxTime    == 2      \* modification times range over 1..MaxTime

ReportFiles == [mtime : 1..MaxTime, statOk : BOOLEAN]

InitFind ==
    /\ pc = "find"
    /\ reports \in SeqsUpTo(ReportFiles, MaxReports)
    /\ found = Unset
    /\ report = [kind |-> "none"] /\ output = Unset
    /\ markers = {} /\ addon = <<>> /\ testPaths = <<>> /\ detected = Pending
    /\ ProcIdle /\ MainIdle

FindCall ==
    /\ pc = "find"
    /\ found = Unset
    /\ found' = FindReportXML(reports)
    /\ UNCHANGED <<detVars, procVars, mainVars, report, output, reports>>

NextFind == FindCall

SpecFind == InitFind /\ [][NextFind]_vars

\* ------------------------------------------------------------------------
\* Crash scan specification: one DetectCrash call on a log file
\* ------------------------------------------------------------------------
\* the kinds of line a log may hold: with or without "handle_crash:" in it,
\* beginning with "SCRIPT ERROR:", with "ERROR:" or with neither
LogLines == [crash : BOOLEAN, pre : {"", "SCRIPT ERROR:", "ERROR:"}]

Numbered(ls) == [i \in 1..Len(ls) |-> [n |-> i, crash |-> ls[i].crash, pre |-> ls[i].pre]]

InitCrash ==
    /\ pc = "crashscan"
    /\ sinkExists = TRUE
    /\ \E ls \in SeqsUpTo(LogLines, MaxLog) : sinkData = Numbered(ls)
    /\ markers = {} /\ addon = <<>> /\ testPaths = <<>> /\ detected = Pending
    /\ RunnerIdle /\ MainIdle /\ RepIdle

DetectCrashCall ==
    /\ pc = "crashscan"
    /\ crash = Unset
    /\ crash' = DetectCrash(sinkData)
    /\ UNCHANGED <<detVars, procVars, pc, cfgVars, stdout, stderr, exitStatus, repVars>>

NextCrash == DetectCrashCall

SpecCrash == InitCrash /\ [][NextCrash]_vars

\* ------------------------------------------------------------------------
\* Argument specification: one BuildArgs call on a list of reference paths
\* ------------------------------------------------------------------------
\* the reference paths Detect can produce for a project at the top of the tree
RefPaths == {toResPath(<<>>, p) : p \in InputPaths}

InitArgs ==
    /\ pc = "args"
    /\ \E r \in SeqsUpTo(RefPaths, MaxPaths) :
         detected = [ok |-> TRUE, err |-> "", path |-> <<>>, root |-> <<>>,
                     ProjectDir |-> <<>>, ResPaths |-> r]
    /\ markers = {} /\ addon = <<>> /\ testPaths = <<>>
    /\ ProcIdle /\ MainIdle /\ RepIdle

BuildArgsCall ==
    /\ pc = "args"
    /\ args = <<>>
    /\ args' = BuildArgs(detected.ResPaths)
    /\ UNCHANGED <<mainRest, pc, ctxVars, sinkVars, pipeVars, childVars, tailVars,
                   errVars>>

NextArgs == BuildArgsCall

SpecArgs == InitArgs /\ [][NextArgs]_vars

\* ========================================================================
\* Properties
\* ========================================================================

\* ---- helpers of the properties -------------------------------------------
IsPrefix(x, y) == Len(x) <= Len(y) /\ SubSeq(y, 1, Len(x)) = x

\* the directory a walk from p starts in
StartDir(p) == IF p \in Dirs THEN p ELSE SubSeq(p, 1, Len(p) - 1)

\* the marker directories at or above p
RootsAbove(p) == {d \in markers : IsPrefix(d, StartDir(p))}
HasRoot(p) == Stat(p) # "none" /\ RootsAbove(p) # {}

\* the nearest of them
Nearest(p) == CHOOSE d \in RootsAbove(p) : \A e \in RootsAbove(p) : Len(e) <= Len(d)

\* some input's nearest root is another one than the first input's
DiffersAt(i) ==
    /\ HasRoot(testPaths[1]) /\ HasRoot(testPaths[i])
    /\ Nearest(testPaths[i]) # Nearest(testPaths[1])
Differs == \E i \in 1..Len(testPaths) : DiffersAt(i)

\* a relative path written with forward slashes, built from its end
RECURSIVE SlashJoin(_)
SlashJoin(segs) ==
    IF Len(segs) = 1 THEN segs[1]
    ELSE SlashJoin(SubSeq(segs, 1, Len(segs) - 1)) \o "/" \o segs[Len(segs)]

ExpectedRef(root, p) ==
    IF p = root THEN "res://."
    ELSE "res://" \o SlashJoin(SubSeq(p, Len(root) + 1, Len(p)))

Returned == ret.kind # "none"

\* ---- C1 ------------------------------------------------------------------
\* C1: BuildOutput sets summary.crashed exactly when crash details are
\* present, and the status is "crashed" with crash details (whatever the
\* report says), else "failed" with a positive failed count, else "passed".
C1_StatusFromCrash ==
    output # Unset =>
        LET failed == IF report.kind = "ok"
                      THEN report.suites.Failures + report.suites.Errors ELSE 0
        IN /\ output.Summary.Crashed = (crash # Nil)
           /\ crash # Nil => output.Summary.Status = "crashed"
           /\ (crash = Nil /\ failed > 0) => output.Summary.Status = "failed"
           /\ (crash = Nil /\ failed = 0) => output.Summary.Status = "passed"

C1_Witness ==
    /\ pc = "report" /\ output # Unset
    /\ crash # Nil /\ report.kind = "ok" /\ report.suites.Failures > 0
    /\ output.Summary.Status = "crashed"

\* ---- C2 ------------------------------------------------------------------
\* C2 as stated: whenever the child started and exited on its own with
\* status c, Run returns a RunResult with ExitCode = c and no error.
C2_Original ==
    (Returned /\ child = "exited") => ret = RunResult(childCode)

\* C2: when the child exited on its own with status c, Run returns a
\* RunResult with ExitCode = c unmodified, except that for c = 0 a failing
\* close of the log file, or a deadline that passes after the exit and before
\* the child is reaped, makes Run return an error.
C2_ExitCodePassThrough ==
    (Returned /\ child = "exited") =>
        IF childCode = 0 /\ (closeErr \/ watchErr)
        THEN ret.kind = "error"
        ELSE ret = RunResult(childCode)

C2_Witness ==
    /\ pc = "afterRun" /\ child = "exited" /\ childCode = 100
    /\ ret = RunResult(100)

\* ---- C3 ------------------------------------------------------------------
\* C3: with a timeout > 0, when the child is still running at the deadline
\* it is killed and Run returns the timeout error and no RunResult.
C3_TimeoutReported ==
    (Returned /\ timeout > 0 /\ child = "killed") =>
        (ret.kind = "error" /\ ret.err = "Godot process timed out")

\* ---- C4 ------------------------------------------------------------------
\* C4: when the child cannot be started, Run returns an error and no
\* RunResult, no child ever ran, and the log file is gone when Run returns.
C4_SpawnFailure ==
    (Returned /\ runErr = "spawn") =>
        /\ ret.kind = "error" /\ ~ret.LogFile
        /\ ~sinkExists
        /\ child = "none"

C4_Witness ==
    pc = "afterRun" /\ runErr = "spawn" /\ ret.kind = "error" /\ ~sinkExists

\* ---- C5 ------------------------------------------------------------------
\* C5: when Run returns, the log file exists exactly if a RunResult is
\* returned; then LogFile names it, Run's handle on it is closed and the
\* child that wrote it has ended and been reaped.
C5_SinkIffResult ==
    pc = "afterRun" =>
        /\ sinkExists <=> ret.kind = "result"
        /\ ret.kind = "result" =>
              /\ ret.LogFile /\ ~sinkOpen
              /\ child \in {"exited", "killed"} /\ reaped

C5_Witness ==
    pc = "afterRun" /\ ret.kind = "result" /\ sinkExists /\ Len(sinkData) > 0

C7_SinkRemovedOnExit ==
    (pc = "exited" /\ ret.kind = "result") => ~sinkExists

C7_Witness ==
    /\ pc = "exited" /\ ret.kind = "result" /\ ~sinkExists
    /\ report.kind = "none" /\ crash = Nil

\* ---- C8 ------------------------------------------------------------------
\* C8: for every existing path, file or directory, at any depth below a
\* directory holding project.godot, findProjectRoot answers with the nearest
\* such directory at or above the path, and Detect returns that one.
C8_NearestRoot ==
    /\ \A p \in InputPaths :
         HasRoot(p) => findProjectRoot(p) = [err |-> "", root |-> Nearest(p)]
    /\ detected.ok =>
         \A i \in 1..Len(testPaths) : detected.ProjectDir = Nearest(testPaths[i])

C8_Witness ==
    /\ detected.ok
    /\ Stat(testPaths[1]) = "file"
    /\ Len(testPaths[1]) > Len(detected.ProjectDir) + 1
    /\ \E d \in markers : d # detected.ProjectDir /\ IsPrefix(d, detected.ProjectDir)

ResolveBefore(k) ==
    \A j \in 1..(k - 1) :
        HasRoot(testPaths[j]) /\ Nearest(testPaths[j]) = Nearest(testPaths[1])

C10_ReferencePaths ==
    detected.ok =>
        /\ Len(detected.ResPaths) = Len(testPaths)
        /\ \A i \in 1..Len(testPaths) :
              detected.ResPaths[i] = ExpectedRef(detected.ProjectDir, testPaths[i])

C10_Witness ==
    /\ detected.ok
    /\ Len(testPaths) = 2
    /\ testPaths[1] = detected.ProjectDir
    /\ testPaths[2] = testPaths[1]
    /\ detected.ResPaths = <<"res://.", "res://.">>

\* ---- C11 -----------------------------------------------------------------
\* C11: when addons/gdUnit4 is not a directory directly under the root found
\* from the first input, Detect fails with the add-on error naming that
\* root, whatever the other inputs are: the check comes before the per-path
\* comparison of roots and before any reference path is computed.
C11_AddonMissing ==
    (/\ detected # Pending /\ Len(testPaths) > 0 /\ HasRoot(testPaths[1])
     /\ addon[Nearest(testPaths[1])] # "dir") =>
        /\ ~detected.ok
        /\ detected.err = "addons/gdUnit4/ not found"
        /\ detected.path = Nearest(testPaths[1])
        /\ detected.ResPaths = <<>>

C11_Witness ==
    /\ detected.err = "addons/gdUnit4/ not found"
    /\ Len(testPaths) = 2
    /\ DiffersAt(2)
    /\ addon[Nearest(testPaths[1])] = "file"

\* ---- C12 -----------------------------------------------------------------
\* C12: when no directory at or above an existing start path holds
\* project.godot, the walk ends at the filesystem root, the one directory
\* that is its own parent (every other parent is strictly shorter, so the
\* walk cannot go on forever), and findProjectRoot fails with the error that
\* names project.godot; Detect reports it for the first input.
C12_WalkEndsAtRoot ==
    /\ \A d \in Dirs : IF Len(d) = 0 THEN Dir(d) = d ELSE Len(Dir(d)) < Len(d)
    /\ \A p \in InputPaths :
         (Stat(p) # "none" /\ RootsAbove(p) = {}) =>
             findProjectRoot(p) = [err |-> "project.godot not found", root |-> NoRoot]
    /\ (/\ detected # Pending /\ Len(testPaths) > 0
        /\ Stat(testPaths[1]) # "none" /\ RootsAbove(testPaths[1]) = {}) =>
            (~detected.ok /\ detected.err = "project.godot not found")

C12_Witness ==
    /\ detected.err = "project.godot not found"
    /\ detected.path = testPaths[1]
    /\ Stat(testPaths[1]) = "file"
    /\ Len(testPaths[1]) >= 3
    /\ markers # {}

\* ---- C13 -----------------------------------------------------------------
\* C13: for N reference paths BuildArgs returns the four opening arguments,
\* then for each path in input order "-a" and the path, then
\* "--ignoreHeadlessMode" and "-c"; "-a" occurs exactly N times.
C13_BuildArgs ==
    (pc = "args" /\ args # <<>>) =>
        LET paths == detected.ResPaths
            N     == Len(paths)
        IN /\ Len(args) = 6 + 2 * N
           /\ SubSeq(args, 1, 4) = <<"--headless", "-s", "-d",
                                     "res://addons/gdUnit4/bin/GdUnitCmdTool.gd">>
           /\ \A i \in 1..N : args[3 + 2 * i] = "-a" /\ args[4 + 2 * i] = paths[i]
           /\ args[5 + 2 * N] = "--ignoreHeadlessMode"
           /\ args[6 + 2 * N] = "-c"
           /\ Cardinality({j \in 1..Len(args) : args[j] = "-a"}) = N

C13_Witness ==
    /\ pc = "args"
    /\ Len(detected.ResPaths) = 2
    /\ detected.ResPaths[1] # detected.ResPaths[2]
    /\ Len(args) = 10
    /\ args[6] = detected.ResPaths[1] /\ args[8] = detected.ResPaths[2]

\* ---- helpers of the crash scan properties ------------------------------
HasCrashLine  == \E i \in 1..Len(sinkData) : sinkData[i].crash
HasScriptLine == \E i \in 1..Len(sinkData) : sinkData[i].pre = "SCRIPT ERROR:"
HasEngineLine == \E i \in 1..Len(sinkData) : sinkData[i].pre = "ERROR:"
Scanned == pc = "crashscan" /\ crash # Unset

\* ---- C14 -----------------------------------------------------------------
\* C14: for a log with no crash marker line, no line beginning with the
\* script-error prefix and none beginning with the generic-error prefix,
\* DetectCrash returns nil; and whenever it returns crash details at least
\* one of their fields is non-empty.
C14_AbsentNotEmpty ==
    Scanned =>
        /\ (~HasCrashLine /\ ~HasScriptLine /\ ~HasEngineLine) => crash = Nil
        /\ crash # Nil => (Len(crash.CrashInfo) > 0 \/ Len(crash.ScriptErrors) > 0)

C14_Witness ==
    /\ Scanned /\ crash = Nil
    /\ Len(sinkData) = MaxLog
    /\ ~HasCrashLine /\ ~HasScriptLine /\ ~HasEngineLine

\* ---- C15 -----------------------------------------------------------------
\* C15: the scan collects three kinds of line: those containing
\* "handle_crash:", those beginning with "SCRIPT ERROR:" and those beginning
\* with "ERROR:"; a log holding a line of any of the three kinds, also one
\* whose only marker lines begin with "ERROR:", yields crash details.
C15_ThreeCategories ==
    Scanned =>
        ((HasCrashLine \/ HasScriptLine \/ HasEngineLine) => crash # Nil)

\* ---- C16 -----------------------------------------------------------------
\* C16: BuildOutput takes total from the header's tests and failed from the
\* header's failures + errors when there is a report and sets both to zero
\* when there is none; passed is max(0, total - failed); the failures list
\* is never absent, also for a crash-only run without a report.
C16_Counts ==
    (pc = "report" /\ output # Unset) =>
        LET total  == IF report.kind = "ok" THEN report.suites.Tests ELSE 0
            failed == IF report.kind = "ok"
                      THEN report.suites.Failures + report.suites.Errors ELSE 0
        IN /\ output.Summary.Total = total
           /\ output.Summary.Failed = failed
           /\ output.Summary.Passed >= 0
           /\ output.Summary.Passed >= total - failed
           /\ output.Summary.Passed \in {0, total - failed}
           /\ ~output.Failures.isNil
           /\ report.kind = "none" => output.Failures.items = <<>>

C16_Witness ==
    /\ pc = "report" /\ output # Unset
    /\ report.kind = "ok"
    /\ report.suites.Failures + report.suites.Errors > report.suites.Tests
    /\ report.suites.Cases = <<>>
    /\ output.Summary.Passed = 0
    /\ output.Failures = [isNil |-> FALSE, items |-> <<>>]

\* ---- helpers of the extraction properties ------------------------------
HasPayload(tc) == tc.Failure # Nil \/ tc.Error # Nil
PayloadCases == SelectSeq(report.suites.Cases, HasPayload)
Extracted == pc = "report" /\ output # Unset /\ report.kind = "ok"

\* a message holds "FAILED: res://<path>:<line>"; a body holds
\* "Expected '<x>' but was '<y>'"
MsgMatches(m) ==
    \E i \in 1..(Len(m) - 3) :
        /\ m[i] = "FAILED:" /\ m[i + 1] = "res://t.gd"
        /\ m[i + 2] = ":" /\ m[i + 3] \in {"42", "99999999999999999999"}
BodyMatches(b) ==
    \E i \in 1..(Len(b) - 3) :
        /\ b[i] = "Expected" /\ b[i + 1] = "'foo'"
        /\ b[i + 2] = "but was" /\ b[i + 3] = "'bar'"

\* ---- C17 -----------------------------------------------------------------
\* C17 as stated: a case with both a failure and an error payload gives
\* exactly one record, built from the error payload; a case with only one
\* of the two uses that one.
C17_Original ==
    Extracted =>
        /\ Len(output.Failures.items) = Len(PayloadCases)
        /\ \A k \in 1..Len(PayloadCases) :
              LET tc == PayloadCases[k]
              IN output.Failures.items[k] =
                     OneFailure(tc, IF tc.Error # Nil THEN tc.Error ELSE tc.Failure)

\* C17: a case with both a failure and an error payload gives exactly one
\* record, built from the failure payload (the failure element is looked at
\* first); a case with only one of the two uses that one.
C17_FailurePrecedence ==
    Extracted =>
        /\ Len(output.Failures.items) = Len(PayloadCases)
        /\ \A k \in 1..Len(PayloadCases) :
              LET tc == PayloadCases[k]
              IN output.Failures.items[k] =
                     OneFailure(tc, IF tc.Failure # Nil THEN tc.Failure ELSE tc.Error)

C17_Witness ==
    /\ Extracted
    /\ Len(report.suites.Cases) = 1
    /\ report.suites.Cases[1].Failure # Nil
    /\ report.suites.Cases[1].Error # Nil
    /\ report.suites.Cases[1].Failure.Message # report.suites.Cases[1].Error.Message
    /\ Len(output.Failures.items) = 1
    /\ output.Failures.items[1].Message = report.suites.Cases[1].Failure.Message

\* ---- C18 -----------------------------------------------------------------
\* C18: every case with a payload gives a record, in order, with class,
\* method and raw message copied; file and line are filled only when the
\* message holds "FAILED: res://<path>:<line>", expected and actual only
\* when the body holds "Expected '<x>' but was '<y>'"; otherwise they are
\* "", 0, "", "" and the record is still there.
C18_BestEffort ==
    Extracted =>
        /\ Len(output.Failures.items) = Len(PayloadCases)
        /\ \A k \in 1..Len(PayloadCases) :
              LET tc == PayloadCases[k]
                  it == output.Failures.items[k]
              IN /\ it.Class = tc.Classname
                 /\ it.Method = tc.Name
                 /\ \E f \in {tc.Failure, tc.Error} \ {Nil} :
                       /\ it.Message = f.Message
                       /\ MsgMatches(f.Message) => it.File = "res://t.gd"
                       /\ ~MsgMatches(f.Message) => (it.File = "" /\ it.Line = 0)
                       /\ it.Line \in {0, 42}
                       /\ BodyMatches(f.Text) =>
                              (it.Expected = "foo" /\ it.Actual = "bar")
                       /\ ~BodyMatches(f.Text) =>
                              (it.Expected = "" /\ it.Actual = "")

C18_Witness ==
    /\ Extracted
    /\ Len(report.suites.Cases) = 2
    /\ Len(output.Failures.items) = 2
    /\ output.Failures.items[1].File = "res://t.gd"
    /\ output.Failures.items[1].Line = 42
    /\ output.Failures.items[1].Expected = "foo"
    /\ output.Failures.items[2] =
           [Class |-> "Foo", Method |-> "test_x", File |-> "", Line |-> 0,
            Expected |-> "", Actual |-> "", Message |-> <<"boom">>]

\* ---- C19 -----------------------------------------------------------------
\* C19: when the glob has matches, FindReportXML returns one of them whose
\* modification time is the most recent of all matches; when it has none,
\* it returns an error and no path.
C19_MostRecent ==
    (pc = "find" /\ found # Unset) =>
        IF Len(reports) = 0
        THEN found.err # "" /\ found.path = 0
        ELSE /\ found.err = ""
             /\ found.path \in 1..Len(reports)
             /\ \A j \in 1..Len(reports) :
                   reports[j].statOk => reports[j].mtime <= reports[found.path].mtime

\* ---- helpers of the entry point properties -----------------------------
InSeq(x, sq) == \E i \in 1..Len(sq) : sq[i] = x
Looked == pc = "exited" /\ found # Unset

\* ---- C20 -----------------------------------------------------------------
\* C20: when the run completed and no report is found: with crash details
\* the crash-only output (status "crashed", counts zero, the crash details)
\* is built and written to the primary channel (it is there unless that
\* write fails, which is reported), without a warning; only without crash
\* details is the warning written to the secondary channel; either way the
\* exit code is 2, while exit codes 0 and 1 occur only with a parsed report.
\* A report that is found but does not parse ends the run with an error,
\* exit code 2 and nothing written to the primary channel.
C20_NoReport ==
    Looked =>
        /\ (found.err # "" /\ crash # Nil) =>
              /\ output.Summary = [Total |-> 0, Passed |-> 0, Failed |-> 0,
                                   Crashed |-> TRUE, Status |-> "crashed"]
              /\ output.CrashDetails = crash
              /\ stdout = <<output>> \/ (stdout = <<>> /\ InSeq("error", stderr))
              /\ ~InSeq("warning", stderr)
              /\ exitStatus = 2
        /\ (found.err # "" /\ crash = Nil) =>
              (InSeq("warning", stderr) /\ exitStatus = 2)
        /\ InSeq("warning", stderr) => (found.err # "" /\ crash = Nil)
        /\ exitStatus \in {0, 1} => (found.err = "" /\ report.kind = "ok")
        /\ report.kind = "bad" =>
              /\ found.err = ""
              /\ stdout = <<>> /\ output = Unset
              /\ stderr = <<"error">>
              /\ exitStatus = 2

C20_Witness ==
    /\ Looked
    /\ found.err # "" /\ crash # Nil
    /\ Len(crash.CrashInfo) > 0
    /\ stdout = <<output>>
    /\ output.Summary.Status = "crashed"
    /\ exitStatus = 2

\* ---- C21 -----------------------------------------------------------------
\* C21: whenever an output has been published the exit code follows its
\* status, 0 for "passed", 1 for "failed", 2 for "crashed"; and every run
\* that reported an error exits 2.
C21_ExitFromStatus ==
    pc = "exited" =>
        /\ \A i \in 1..Len(stdout) :
              /\ stdout[i].Summary.Status = "passed"  => exitStatus = 0
              /\ stdout[i].Summary.Status = "failed"  => exitStatus = 1
              /\ stdout[i].Summary.Status = "crashed" => exitStatus = 2
        /\ InSeq("error", stderr) => exitStatus = 2

\* ---- C22 -----------------------------------------------------------------
\* C22: at every moment the primary channel holds nothing but result
\* documents, at most one, the one BuildOutput returned; usage, version,
\* error and warning text is on the secondary channel, where also the tail
\* goroutine forwards the log.
C22_StdoutOnlyResult ==
    /\ Len(stdout) <= 1
    /\ \A i \in 1..Len(stdout) : stdout[i] = output /\ output # Unset
    /\ \A i \in 1..Len(stderr) : stderr[i] \in {"usage", "version", "error", "warning"}
    /\ pc = "exited" =>
          \/ stdout = <<>>
          \/ stdout = <<output>> /\ found # Unset

C22_Witness ==
    /\ pc = "exited"
    /\ verbose /\ Len(live) > 0
    /\ stdout = <<output>>
    /\ stderr = <<"warning">>

\* ---- helpers of the pipeline properties --------------------------------
AfterRunPcs == {"afterRun", "detectCrash", "findReport", "parseXML", "write", "exited"}
Extracting  == crash # Unset \/ found # Unset
                  \/ pc \in {"detectCrash", "findReport", "parseXML", "write"}

\* ---- C23 -----------------------------------------------------------------
\* C23: a child process exists only after configuration and resolution
\* succeeded, and the crash scan, the report lookup and the report parsing
\* happen only when the child was started and was not killed at the timeout.
C23_ErrorsTerminal ==
    /\ child # "none" => detected.ok
    /\ Extracting =>
          /\ detected.ok
          /\ runErr # "spawn"
          /\ ~(timeout > 0 /\ child = "killed")

\* ---- C25 -----------------------------------------------------------------
\* C25: whenever the child is started the write end of the stdin pipe is
\* already closed and the read end open, so the child's standard input is at
\* end of input; when the pipe cannot be created no child is ever started.
C25_ClosedStdin ==
    /\ pc \in {"startTail", "cmdStart", "cmdWait"} =>
          (stdinW = "closed" /\ stdinR = "open")
    /\ child # "none" => (childStdin = "eof" /\ stdinW = "closed")
    /\ child = "running" => stdinR = "open"
    /\ ret.err = "failed to create stdin pipe" => child = "none"

C25_Witness ==
    /\ pc = "cmdWait" /\ child = "running"
    /\ childStdin = "eof" /\ stdinW = "closed" /\ stdinR = "open"

\* ---- C26 -----------------------------------------------------------------
\* C26: in verbose mode, once the tail goroutine has been started, Run
\* returns only with the stop channel closed exactly once and the goroutine
\* ended, whatever cmd.Run and the close of the log file gave; the channel
\* is never closed twice; without verbose no goroutine is started, no
\* channel made and nothing forwarded.
C26_TailStopped ==
    /\ stopCloses <= 1
    /\ (verbose /\ tailPc # "none" /\ pc \in AfterRunPcs \cup {"return"}) =>
          (stopCloses = 1 /\ stopTail = "closed" /\ tailPc = "done")
    /\ (verbose /\ pc \in {"cmdStart", "cmdWait", "close", "stop", "wgWait"}) =>
          tailPc # "none"
    /\ ~verbose =>
          (tailPc = "none" /\ stopTail = "nil" /\ stopCloses = 0 /\ live = <<>>)

C26_Witness ==
    /\ pc = "afterRun" /\ verbose
    /\ runErr = "spawn"
    /\ tailFile = "closed" /\ tailPc = "done"
    /\ stopCloses = 1

C27_LivePrefix ==
    /\ IsPrefix(live, sinkData)
    /\ tailOff = Len(live)

C27_Witness ==
    /\ tailPc = "drain"
    /\ Len(live) > 0
    /\ Len(live) < Len(sinkData)

EscapingRefs ==
    {"res://" \o ToSlash(<<"..">> \o s) :
        s \in SeqsUpTo(DirNames \cup {"..", TestFile}, MaxDepth + 1)}

\* C29: whenever Detect succeeds every input lies at or below the returned
\* project root and no reference path begins with "res://..".
C29_InsideRoot ==
    detected.ok =>
        \A i \in 1..Len(testPaths) :
            /\ IsPrefix(detected.ProjectDir, testPaths[i])
            /\ detected.ResPaths[i] \notin EscapingRefs

C29_Witness ==
    /\ detected.ok
    /\ Cardinality(markers) = 2
    /\ \E m \in markers : ~IsPrefix(m, detected.ProjectDir)
    /\ Len(testPaths) = 2
    /\ Len(testPaths[1]) > Len(detected.ProjectDir)
    /\ testPaths[2] # testPaths[1]

\* ---- C30 -----------------------------------------------------------------
\* C30: the scan puts a line containing "handle_crash:" among the crash
\* lines and nowhere else, also when it begins with "SCRIPT ERROR:"; a line
\* without the marker that begins with "SCRIPT ERROR:" among the script
\* error lines; no line in both; each category keeps the order of the log.
C30_OneCategory ==
    (Scanned /\ crash # Nil) =>
        /\ \A i \in 1..Len(sinkData) :
              LET l == sinkData[i]
              IN /\ InSeq(l, crash.CrashInfo) <=> l.crash
                 /\ InSeq(l, crash.ScriptErrors) <=>
                        (~l.crash /\ l.pre = "SCRIPT ERROR:")
                 /\ ~(InSeq(l, crash.CrashInfo) /\ InSeq(l, crash.ScriptErrors))
        /\ \A j, k \in 1..Len(crash.CrashInfo) :
              j < k => crash.CrashInfo[j].n < crash.CrashInfo[k].n
        /\ \A j, k \in 1..Len(crash.ScriptErrors) :
              j < k => crash.ScriptErrors[j].n < crash.ScriptErrors[k].n

C30_Witness ==
    /\ Scanned /\ crash # Nil
    /\ \E i \in 1..Len(sinkData) :
          sinkData[i].crash /\ sinkData[i].pre = "SCRIPT ERROR:"
    /\ Len(crash.CrashInfo) >= 2
    /\ Len(crash.ScriptErrors) >= 1

====
